---- MODULE Spec2Model ----
(***************************************************************************)
(* Model of akuhnregnier/projectB, src/system.py: the System that holds a  *)
(* square grid of potentials with pinned source cells, the Shape regions   *)
(* added to it, the stencil matrix of create_method_matrix and the three   *)
(* relaxation solvers jacobi, gauss_seidel and SOR.                        *)
(*                                                                         *)
(* Numbers.  The program computes in IEEE double precision.  The model     *)
(* computes in binary floating point of the same shape with a shorter      *)
(* significand: a number is [m |-> mantissa, e |-> exponent], value        *)
(* m * 2^e, kept canonical (m odd, or m = 0 and e = 0), and every          *)
(* operation rounds its exact result to Precision significant bits, to     *)
(* nearest, ties to even.  A result that needs no more than Precision      *)
(* bits is therefore exact, as it is in the program.                       *)
(*                                                                         *)
(* Calls.  A run constructs a System, adds regions and solves, in any      *)
(* order.  The regions are point sources, Shape(Ns, potential, origin),    *)
(* and the regions asked for with a shape name or a number of shape        *)
(* arguments that add_source draws nothing for; the loops that draw a      *)
(* rectangle or a circle are not part of the model.                        *)
(* A solve is three steps: the call up to the loop, one step for each      *)
(* sweep, and the store of the result.  A solve after the first one        *)
(* repeats the solve before it, on the field that solve stored.            *)
(***************************************************************************)
EXTENDS Integers, Sequences, FiniteSets, TLC

\* significand width of the modelled floating point (float64 has 53)
Precision == 12

----------------------------------------------------------------------------
(* Floating point *)

Pow2(n) == 2^n

AbsInt(n) == IF n < 0 THEN -n ELSE n

\* number of bits of n >= 0 (0 for n = 0); n < 2^30
BitLen(n) == CHOOSE k \in 0..30 : n < Pow2(k) /\ (k = 0 \/ n >= Pow2(k-1))

RECURSIVE Strip(_, _)
\* canonical form of m * 2^e
Strip(m, e) ==
    IF m = 0 THEN [m |-> 0, e |-> 0]
    ELSE IF m % 2 = 0 THEN Strip(m \div 2, e + 1)
    ELSE [m |-> m, e |-> e]

\* n >= 0 shifted right by s >= 1 bits, rounded to nearest, ties to even
ShiftRound(n, s) ==
    LET q == n \div Pow2(s)
        r == n % Pow2(s)
        half == Pow2(s-1)
    IN  IF r > half \/ (r = half /\ q % 2 = 1) THEN q + 1 ELSE q

\* m * 2^e rounded to Precision significant bits
Round(m, e) ==
    LET n == AbsInt(m)
        s == BitLen(n) - Precision
        sg == IF m < 0 THEN -1 ELSE 1
    IN  IF s <= 0 THEN Strip(m, e)
        ELSE Strip(sg * ShiftRound(n, s), e + s)

F(n) == Strip(n, 0)
\* the float n / 2^k
Dy(n, k) == Strip(n, -k)

Zero == F(0)
One == F(1)

FNeg(a) == [m |-> -a.m, e |-> a.e]
FAbs(a) == [m |-> AbsInt(a.m), e |-> a.e]

\* position of the leading bit of a # 0
Top(a) == a.e + BitLen(AbsInt(a.m))

\* mantissa of a at exponent E (bits below 2^E are dropped)
AtExp(a, E) ==
    IF a.e >= E THEN a.m * Pow2(a.e - E)
    ELSE IF E - a.e > 30 THEN 0
    ELSE (IF a.m < 0 THEN -1 ELSE 1) * (AbsInt(a.m) \div Pow2(E - a.e))

FAdd(a, b) ==
    IF a.m = 0 THEN b
    ELSE IF b.m = 0 THEN a
    ELSE LET hi == IF Top(a) > Top(b) THEN Top(a) ELSE Top(b)
             lo == IF a.e < b.e THEN a.e ELSE b.e
             E == IF hi - lo <= 29 THEN lo ELSE hi - 29
         IN  Round(AtExp(a, E) + AtExp(b, E), E)

FSub(a, b) == FAdd(a, FNeg(b))

FMul(a, b) ==
    IF a.m = 0 \/ b.m = 0 THEN Zero ELSE Round(a.m * b.m, a.e + b.e)

\* a / b for b # 0 (Python raises ZeroDivisionError for b = 0: the callers
\* test for it)
FDiv(a, b) ==
    IF a.m = 0 THEN Zero
    ELSE LET s == 30 - BitLen(AbsInt(a.m))
             n == AbsInt(a.m) * Pow2(s)
             d == AbsInt(b.m)
             q == n \div d
             sticky == IF n % d # 0 /\ q % 2 = 0 THEN 1 ELSE 0
             sg == IF (a.m < 0) # (b.m < 0) THEN -1 ELSE 1
         IN  Round(sg * (q + sticky), a.e - s - b.e)

\* a < b, exactly
FLess(a, b) ==
    LET sa == IF a.m < 0 THEN -1 ELSE IF a.m = 0 THEN 0 ELSE 1
        sb == IF b.m < 0 THEN -1 ELSE IF b.m = 0 THEN 0 ELSE 1
    IN  IF sa # sb THEN sa < sb
        ELSE IF sa = 0 THEN FALSE
        ELSE IF Top(a) # Top(b) THEN (IF sa > 0 THEN Top(a) < Top(b)
                                                ELSE Top(a) > Top(b))
        ELSE LET lo == IF a.e < b.e THEN a.e ELSE b.e
             IN  AtExp(a, lo) < AtExp(b, lo)

RECURSIVE SqrtBits(_, _, _)
\* floor of the square root of n: r is the root so far, bit the next bit
SqrtBits(n, r, bit) ==
    IF bit = 0 THEN r
    ELSE IF (r + bit) * (r + bit) <= n THEN SqrtBits(n, r + bit, bit \div 2)
    ELSE SqrtBits(n, r, bit \div 2)

ISqrt(n) == SqrtBits(n, 0, Pow2(14))

\* square root of a >= 0
FSqrt(a) ==
    IF a.m = 0 THEN Zero
    ELSE LET m1 == IF a.e % 2 = 0 THEN a.m ELSE 2 * a.m
             e1 == IF a.e % 2 = 0 THEN a.e ELSE a.e - 1
             t == (29 - BitLen(m1)) \div 2
             n == m1 * Pow2(2 * t)
             r == ISqrt(n)
             sticky == IF r * r # n /\ r % 2 = 0 THEN 1 ELSE 0
         IN  Round(r + sticky, (e1 \div 2) - t)

----------------------------------------------------------------------------
(* Vectors and matrices: numpy arrays, flattened row-major, indexed from 0 *)

\* largest grid side the model constructs
MaxNs == 2

Idx(N) == 0..(N - 1)

RECURSIVE ArrayFrom(_, _, _)
\* the entries k..N-1 of f, each computed once
ArrayFrom(f, k, N) ==
    IF k >= N THEN << >>
    ELSE IF k + 1 = N THEN (k :> f[k])
    ELSE LET mid == (k + N) \div 2
         IN  ArrayFrom(f, k, mid) @@ ArrayFrom(f, mid, N)

\* the array of length N with the entries of f, each computed once
Array(f, N) == ArrayFrom(f, 0, N)

\* the N x N array with the entries of f
Array2(f, N) == Array([i \in Idx(N) |-> Array(f[i], N)], N)

zeros(N) == Array([k \in Idx(N) |-> Zero], N)
zerosNN(N) == Array([i \in Idx(N) |-> zeros(N)], N)

RECURSIVE DotRange(_, _, _, _)
\* sum of row[j]*x[j] for j in range(j0, j1), accumulated in index order
DotRange(row, x, j0, j1) ==
    IF j0 >= j1 THEN Zero
    ELSE FAdd(DotRange(row, x, j0, j1 - 1), FMul(row[j1 - 1], x[j1 - 1]))

\* np.dot(M, x)
MatVec(M, x, N) == Array([i \in Idx(N) |-> DotRange(M[i], x, 0, N)], N)

\* np.dot(M1, M2)
MatMul(M1, M2, N) ==
    Array2([i \in Idx(N) |->
               [j \in Idx(N) |->
                   DotRange(M1[i], [k \in Idx(N) |-> M2[k][j]], 0, N)]], N)

MatAdd(M1, M2, N) ==
    Array2([i \in Idx(N) |-> [j \in Idx(N) |-> FAdd(M1[i][j], M2[i][j])]], N)

MatNeg(M, N) == Array2([i \in Idx(N) |-> [j \in Idx(N) |-> FNeg(M[i][j])]], N)

VecAdd(x, y, N) == Array([k \in Idx(N) |-> FAdd(x[k], y[k])], N)

\* np.diag(np.diag(A))
diag(M, N) ==
    Array2([i \in Idx(N) |-> [j \in Idx(N) |-> IF i = j THEN M[i][j] ELSE Zero]], N)

\* np.tril(A, k=-1)
tril(M, N) ==
    Array2([i \in Idx(N) |-> [j \in Idx(N) |-> IF j < i THEN M[i][j] ELSE Zero]], N)

\* np.triu(A, k=1)
triu(M, N) ==
    Array2([i \in Idx(N) |-> [j \in Idx(N) |-> IF j > i THEN M[i][j] ELSE Zero]], N)

RECURSIVE InvRows(_, _, _, _)
\* rows i..N-1 of the inverse of the lower-triangular M, X holding rows 0..i-1:
\* forward substitution on the columns of the identity
InvRows(M, N, i, X) ==
    IF i >= N THEN X
    ELSE LET row == Array([j \in Idx(N) |->
                        FDiv(FSub(IF i = j THEN One ELSE Zero,
                                  DotRange(M[i], [k \in Idx(N) |-> X[k][j]],
                                           0, i)),
                             M[i][i])], N)
         IN  InvRows(M, N, i + 1, [X EXCEPT ![i] = row])

\* np.linalg.inv of a lower-triangular (or diagonal) matrix
inv(M, N) == InvRows(M, N, 0, zerosNN(N))

\* np.linalg.norm(x)
norm(x, N) == FSqrt(DotRange(x, x, 0, N))

----------------------------------------------------------------------------
(* System.create_method_matrix *)

\* int(float(i)/Ns) for i >= 0: truncation toward zero
coord1(i, ns) == IF ns > 0 THEN i \div ns ELSE -(i \div (-ns))
\* i % Ns for i >= 0: Python's remainder has the sign of the divisor
coord2(i, ns) == IF ns > 0 THEN i % ns ELSE -((-i) % (-ns))

\* the four neighbours of (c1, c2) in the order of the zip
neighbours(c1, c2) ==
    << <<c1, c2 - 1>>, <<c1, c2 + 1>>, <<c1 - 1, c2>>, <<c1 + 1, c2>> >>

\* self.A[i, col] = 1 on a row of length N: numpy wraps a negative index and
\* raises IndexError outside -N..N-1, which the except clause catches
SetEntry(st, col, N, c) ==
    IF col >= N \/ col < -N
    THEN [st EXCEPT !.bnd = Append(@, c)]
    ELSE [st EXCEPT !.row[IF col < 0 THEN col + N ELSE col] = One]

\* the inner loop without its test for a neighbour off the grid
NeighbourStepUnguarded(st, i, ns, N, c) ==
    LET c1 == c[1]
        c2 == c[2]
        k1 == coord1(i, ns)
        k2 == coord2(i, ns)
    IN  IF c1 = k1 - 1 THEN SetEntry(st, i - ns, N, c)
        ELSE IF c1 = k1 + 1 THEN SetEntry(st, i + ns, N, c)
        ELSE IF c2 = k2 - 1 THEN SetEntry(st, i - 1, N, c)
        ELSE IF c2 = k2 + 1 THEN SetEntry(st, i + 1, N, c)
        ELSE st

\* one pass of the inner loop for neighbour c of cell i
NeighbourStep(st, i, ns, N, c) ==
    LET c1 == c[1]
        c2 == c[2]
        k1 == coord1(i, ns)
        k2 == coord2(i, ns)
    IN  IF c1 = -1 \/ c2 = -1 \/ c1 > ns - 1 \/ c2 > ns - 1
        THEN [st EXCEPT !.bnd = Append(@, c)]
        ELSE IF c1 = k1 - 1 THEN SetEntry(st, i - ns, N, c)
        ELSE IF c1 = k1 + 1 THEN SetEntry(st, i + ns, N, c)
        ELSE IF c2 = k2 - 1 THEN SetEntry(st, i - 1, N, c)
        ELSE IF c2 = k2 + 1 THEN SetEntry(st, i + 1, N, c)
        ELSE st

RECURSIVE NeighbourLoop(_, _, _, _, _, _)
NeighbourLoop(st, i, ns, N, cs, k) ==
    IF k > Len(cs) THEN st
    ELSE NeighbourLoop(NeighbourStep(st, i, ns, N, cs[k]), i, ns, N, cs, k + 1)

\* row i of A and the out-of-bounds neighbours of cell i
MatrixRow(i, ns, N) ==
    NeighbourLoop([row |-> Array([j \in Idx(N) |-> IF j = i THEN F(-4) ELSE Zero], N),
                   bnd |-> << >>],
                  i, ns, N, neighbours(coord1(i, ns), coord2(i, ns)), 1)

\* the matrix A and the list boundary_conditions for grid side ns
create_method_matrix(ns) ==
    LET N == ns * ns
    IN  [A |-> Array([i \in Idx(N) |-> MatrixRow(i, ns, N).row], N),
         boundary_conditions |-> Array([i \in Idx(N) |-> MatrixRow(i, ns, N).bnd], N)]

----------------------------------------------------------------------------
(* Python values and the inputs the model draws *)

\* a Python number: its type (int or float) and its value
PyInt(n) == [isint |-> TRUE, v |-> F(n)]
PyFloat(a) == [isint |-> FALSE, v |-> a]

\* the integer held by a float of integral value
IntOf(a) == IF a.m < 0 THEN -(AbsInt(a.m) * Pow2(a.e)) ELSE a.m * Pow2(a.e)

\* most sweeps asked of one solve
MaxIter == 2
\* number of seeds of the random generator
MaxSeed == 2
\* number of add calls and of solve calls in one run
MaxAdds == 2
MaxSolves == 2

NsInputs == {PyInt(n) : n \in (-1)..MaxNs} \cup {PyFloat(Dy(5, 1))}
MaxIterInputs == {PyInt(n) : n \in {-1, 0, 1, MaxIter}} \cup {PyFloat(Dy(3, 1))}
TolInputs == {F(-1), Dy(1, 3)}
WInputs == {One, Dy(3, 1)}
PotentialInputs == {Dy(3, 1), F(-1)}
OriginInputs == {<<Zero, Zero>>, <<One, One>>}
Methods == {"jacobi", "gauss_seidel", "SOR"}

\* side of the grid with one source at its centre
CentreNs == 3
\* largest grid side whose matrix is built
MaxStencilNs == 4

\* most shape arguments given to one Shape call
MaxArgs == 3
\* the lists of shape arguments, each argument a half
ArgsInputs == {[k \in 1..n |-> Dy(1, 1)] : n \in 0..MaxArgs}
\* the values of the keyword 'shape': the two names add_source tests for, and
\* the name coaxial_cable.py passes
ShapeNames == {"rectangle", "circle", "square"}
KwargsInputs == {{}} \cup {{<<"shape", name>>} : name \in ShapeNames}

\* np.random.random(x.shape): the vector the generator yields from a seed,
\* every entry in [0, 1)
random(seed, N) == Array([k \in Idx(N) |-> Dy((5 * seed + 3 * k + 1) % 8, 3)], N)

----------------------------------------------------------------------------
(* Shape *)

\* side of the arrays np.mgrid[0:1:complex(0, Ns), ...] yields: int(abs(step))
Side(ns) == AbsInt(ns)

\* np.mgrid coordinate of index r on an axis of the given side
GridCoord(r, side) ==
    IF side = 1 THEN Zero ELSE FMul(F(r), FDiv(One, F(side - 1)))

\* the indices of an axis whose coordinate is closest to c
Closest(c, side) ==
    LET d(r) == FAbs(FSub(GridCoord(r, side), c))
    IN  {r \in Idx(side) : \A q \in Idx(side) : ~FLess(d(q), d(r))}

\* Shape.find_closest_gridpoint: the candidates for the most common index
\* pair.  The pairs (row, column) with a closest row and a closest column are
\* counted twice, all others once; among several such pairs the one returned
\* is the first in the Counter's iteration order, which the model leaves open.
find_closest_gridpoint(coords, side) ==
    {r * side + c : r \in Closest(coords[1], side), c \in Closest(coords[2], side)}

\* the arrays of a Shape with no source
EmptyShape(ns, potential) ==
    [Ns |-> ns, potential |-> potential,
     potentials |-> zeros(Side(ns) * Side(ns)),
     sources |-> Array([k \in Idx(Side(ns) * Side(ns)) |-> FALSE], Side(ns) * Side(ns)),
     source_potentials |-> zeros(Side(ns) * Side(ns))]

\* Shape.add_source with no extra argument: a point source
PointSource(sh, k) ==
    [sh EXCEPT !.potentials[k] = sh.potential,
               !.sources[k] = TRUE,
               !.source_potentials[k] = sh.potential]

\* kwargs, a set of <<key, value>> pairs: 'key' in kwargs, and kwargs['key']
HasKey(kwargs, key) == \E p \in kwargs : p[1] = key
GetKey(kwargs, key) == (CHOOSE p \in kwargs : p[1] = key)[2]

\* add_source: shape = kwargs['shape'] if 'shape' in kwargs else 'rectangle'
ShapeName(kwargs) ==
    IF HasKey(kwargs, "shape") THEN GetKey(kwargs, "shape") ELSE "rectangle"

\* add_source: not_implemented_message, which holds len(args) and shape
not_implemented_message(args, shape) == [nargs |-> Len(args), shape |-> shape]

\* add_source, the statement "if shape == 'rectangle':", out being the shape
\* and the messages printed so far.  With two args the edges are drawn and
\* filled, which the model leaves out: it has no outcome for that call.
RectangleBranch(out, args, shape) ==
    IF shape = "rectangle"
    THEN IF Len(args) = 2
         THEN {}
         ELSE {[out EXCEPT !.printed =
                               Append(@, not_implemented_message(args, shape))]}
    ELSE {out}

\* add_source, the statement "if shape == 'circle':".  With one arg the circle
\* is drawn and filled, which the model leaves out.
CircleBranch(out, args, shape) ==
    IF shape = "circle"
    THEN IF Len(args) = 1
         THEN {}
         ELSE {[out EXCEPT !.printed =
                               Append(@, not_implemented_message(args, shape))]}
    ELSE {out}

\* Shape.add_source(origin, *args, **kwargs): the outcomes, each the shape
\* afterwards and the messages printed.  With no args it makes a point source
\* and returns; otherwise the two if statements on the shape name follow one
\* another, and a name that is neither falls through both.
add_source(sh, origin, args, kwargs) ==
    IF args = << >>
    THEN {[shape |-> PointSource(sh, k), printed |-> << >>] :
            k \in find_closest_gridpoint(origin, Side(sh.Ns))}
    ELSE UNION {CircleBranch(out, args, ShapeName(kwargs)) :
                  out \in RectangleBranch([shape |-> sh, printed |-> << >>],
                                          args, ShapeName(kwargs))}

\* Shape(Ns, potential, origin, *args, **kwargs): the outcomes, each an
\* exception, or a shape and the messages printed
Shape(req) ==
    IF ~req.Ns.isint THEN {[err |-> "AssertionError", printed |-> << >>]}
    ELSE IF req.Ns.v = Zero THEN {[err |-> "ZeroDivisionError", printed |-> << >>]}
    ELSE {[err |-> "none", shape |-> res.shape, printed |-> res.printed] :
            res \in add_source(EmptyShape(IntOf(req.Ns.v), req.potential),
                               req.origin, req.args, req.kwargs)}

\* the Shape calls of the runs of Spec: every potential and origin for the Ns
\* that construct a Shape, one call for each Ns that raises
ShapeRequests ==
    [Ns : {nsv \in NsInputs : nsv.isint /\ nsv.v # Zero},
     potential : PotentialInputs, origin : OriginInputs,
     args : {<< >>}, kwargs : {{}}]
    \cup
    [Ns : {nsv \in NsInputs : ~nsv.isint \/ nsv.v = Zero},
     potential : {One}, origin : {<<Zero, Zero>>},
     args : {<< >>}, kwargs : {{}}]

----------------------------------------------------------------------------
(* The relaxation solvers: what each computes before and inside its loop *)

\* a solver that never assigns x[sources]
PinNothing(x, orig_x, src, N) == x

\* x[sources] = orig_x[sources]
Pin(x, orig_x, src, N) ==
    Array([k \in Idx(N) |-> IF src[k] THEN orig_x[k] ELSE x[k]], N)

\* jacobi: D_inv = np.linalg.inv(D)
D_inv(M, N) == inv(diag(M, N), N)

\* jacobi: T = - np.dot(D_inv, L_U)
jacobi_T(Dinv, M, N) ==
    MatNeg(MatMul(Dinv, MatAdd(tril(M, N), triu(M, N), N), N), N)

\* jacobi: D_inv_b = np.dot(D_inv, b)
jacobi_c(Dinv, b, N) == MatVec(Dinv, b, N)

\* gauss_seidel: L_D_inv = np.linalg.inv(L+D)
L_D_inv(M, N) == inv(MatAdd(tril(M, N), diag(M, N), N), N)

\* an iteration matrix with no feedback inside a sweep: that of jacobi
gauss_seidel_T_NoFeedback(LDinv, M, N) == jacobi_T(D_inv(M, N), M, N)

\* gauss_seidel: T = -np.dot(L_D_inv, U)
gauss_seidel_T(LDinv, M, N) == MatNeg(MatMul(LDinv, triu(M, N), N), N)

\* gauss_seidel: L_D_inv_b = np.dot(L_D_inv, b)
gauss_seidel_c(LDinv, b, N) == MatVec(LDinv, b, N)

\* one pass of the loop body of jacobi and of gauss_seidel:
\* x = np.dot(T, x) + c, then x[sources] = orig_x[sources]
MatrixSweep(T, c, x, orig_x, src, N) ==
    Pin(VecAdd(MatVec(T, x, N), c, N), orig_x, src, N)

\* a loop body that has no test for a source cell
SORCellNoSkip(x, k, N, src, L, U, w, D, b) ==
    LET s1 == DotRange(L[k], x, 0, k)
        s2 == DotRange(U[k], x, k + 1, N)
    IN  [x EXCEPT ![k] =
            FAdd(FMul(FSub(One, w), x[k]),
                 FMul(FDiv(w, D[k]), FSub(FSub(b[k], s1), s2)))]

\* SOR_sub_func, the body of the loop over k for one cell
SORCell(x, k, N, src, L, U, w, D, b) ==
    IF src[k] THEN x
    ELSE LET s1 == DotRange(L[k], x, 0, k)
             s2 == DotRange(U[k], x, k + 1, N)
         IN  [x EXCEPT ![k] =
                 FAdd(FMul(FSub(One, w), x[k]),
                      FMul(FDiv(w, D[k]), FSub(FSub(b[k], s1), s2)))]

RECURSIVE SORCells(_, _, _, _, _, _, _, _, _)
\* SOR_sub_func, the loop over k = k0..N-1 of one sweep, in place
SORCells(x, k0, N, src, L, U, w, D, b) ==
    IF k0 >= N THEN x
    ELSE SORCells(SORCell(x, k0, N, src, L, U, w, D, b), k0 + 1, N, src, L, U, w, D, b)

\* one sweep of SOR_sub_func on the matrix M = self.A
SORSweep(M, x, src, w, b, N) ==
    SORCells(x, 0, N, src, tril(M, N), triu(M, N), w,
             Array([k \in Idx(N) |-> M[k][k]], N), b)

----------------------------------------------------------------------------
(* State *)

VARIABLES
    made,               \* a System has been constructed
    Ns,                 \* System.Ns
    potentials,         \* System.potentials, flattened
    sources,            \* System.sources, flattened
    source_potentials,  \* System.source_potentials, flattened
    A,                  \* System.A, << >> until create_method_matrix has run
    boundary_conditions,\* System.boundary_conditions
    pc,                 \* "idle", or the place of the running solve:
                        \* "loop" (before a sweep), "store" (after the loop)
    loc,                \* the arguments and locals of the running or last solve
    err,                \* the exception the last finished call raised, or "none"
    hist                \* history: what was called, and the state before it

vars == <<made, Ns, potentials, sources, source_potentials, A,
          boundary_conditions, pc, loc, err, hist>>

\* the locals of a solve: T and c are the iteration matrix and vector of
\* jacobi and gauss_seidel, xs lists x at loop entry and after each sweep
NoLoc ==
    [method |-> "none", tol |-> Zero, max_iter |-> PyInt(0), w |-> Zero,
     b |-> << >>, T |-> << >>, c |-> << >>, x |-> << >>,
     orig_x |-> << >>, i |-> 0, initial_norm |-> Zero, final_norm |-> Zero,
     diff |-> Zero, xs |-> << >>]

Arrays == [potentials |-> potentials, sources |-> sources,
           source_potentials |-> source_potentials]

NoSolve == [valid |-> FALSE, method |-> "none", tol |-> Zero,
            max_iter |-> PyInt(0), w |-> Zero]

\* history: last is the kind of the last call ("new", "shape" for a Shape
\* constructor that raised, "add", "solve", "matrix"), pre the arrays before
\* it, arg the grid side it was given (the Ns of System(Ns), the Ns of the
\* region passed to add), shapes the regions added, nadd and nsolve the
\* number of adds and of solves that reached their loop, stored whether a
\* solve has stored a field, late whether a region was added after that,
\* badargs whether a solve was called with a negative tol or a max_iter that
\* is no positive int, prev the arguments of the last solve that stored its
\* field with no add since, region the shape arguments and keywords of the
\* last Shape call, printed the messages that call printed
Init ==
    /\ made = FALSE
    /\ Ns = 0
    /\ potentials = << >>
    /\ sources = << >>
    /\ source_potentials = << >>
    /\ A = << >>
    /\ boundary_conditions = << >>
    /\ pc = "idle"
    /\ loc = NoLoc
    /\ err = "none"
    /\ hist = [last |-> "none", nadd |-> 0, nsolve |-> 0,
               arg |-> PyInt(0), pre |-> Arrays,
               shapes |-> << >>, stored |-> FALSE, late |-> FALSE,
               badargs |-> FALSE, prev |-> NoSolve,
               region |-> [args |-> << >>, kwargs |-> {}],
               printed |-> << >>]

----------------------------------------------------------------------------
(* System.__init__ *)

New(nsv) ==
    /\ ~made
    /\ pc = "idle"
    /\ hist' = [hist EXCEPT !.last = "new", !.arg = nsv, !.pre = Arrays]
    /\ UNCHANGED <<A, boundary_conditions, pc, loc>>
    /\ IF ~nsv.isint
       THEN \* assert type(Ns)==int
            /\ err' = "AssertionError"
            /\ UNCHANGED <<made, Ns, potentials, sources, source_potentials>>
       ELSE IF nsv.v = Zero
       THEN \* self.h = 1./Ns
            /\ err' = "ZeroDivisionError"
            /\ UNCHANGED <<made, Ns, potentials, sources, source_potentials>>
       ELSE LET N == Side(IntOf(nsv.v)) * Side(IntOf(nsv.v))
            IN  /\ made' = TRUE
                /\ Ns' = IntOf(nsv.v)
                /\ potentials' = zeros(N)
                /\ sources' = Array([k \in Idx(N) |-> FALSE], N)
                /\ source_potentials' = zeros(N)
                /\ err' = "none"

(* System.add *)

\* an add that replaces instead of accumulating
iaddReplaces(a, b, N) == b

\* a += b on float arrays
iadd(a, b, N) == VecAdd(a, b, N)

\* a += b on boolean arrays: the logical or
ior(a, b, N) == Array([k \in Idx(N) |-> a[k] \/ b[k]], N)

\* an add that accumulates first and compares the grid sides afterwards: a
\* region of one cell broadcasts over the arrays, any other region of another
\* side is refused by numpy before anything is written
System_add_CheckLast(ns, arr, sh) ==
    LET N == Side(ns) * Side(ns)
        e == IF sh.Ns # ns THEN "AssertionError" ELSE "none"
        at(k) == IF Side(sh.Ns) = 1 THEN 0 ELSE k
    IN  IF Side(sh.Ns) # 1 /\ Side(sh.Ns) # Side(ns)
        THEN [err |-> "ValueError", arrays |-> arr]
        ELSE [err |-> e,
              arrays |->
                [potentials |->
                     Array([k \in Idx(N) |->
                              FAdd(arr.potentials[k], sh.potentials[at(k)])], N),
                 sources |->
                     Array([k \in Idx(N) |->
                              arr.sources[k] \/ sh.sources[at(k)]], N),
                 source_potentials |->
                     Array([k \in Idx(N) |->
                              FAdd(arr.source_potentials[k],
                                   sh.source_potentials[at(k)])], N)]]

\* System.add on a System of side ns with the arrays arr: the exception
\* raised, and the arrays afterwards
System_add(ns, arr, sh) ==
    IF sh.Ns # ns
    THEN [err |-> "AssertionError", arrays |-> arr]
    ELSE LET N == Side(ns) * Side(ns)
         IN  [err |-> "none",
              arrays |->
                [potentials |-> iadd(arr.potentials, sh.potentials, N),
                 sources |-> ior(arr.sources, sh.sources, N),
                 source_potentials |->
                     iadd(arr.source_potentials, sh.source_potentials, N)]]

\* test.add(Shape(...)): out is the outcome of the Shape constructor
add(req, out) ==
    /\ made
    /\ pc = "idle"
    /\ hist.nadd < MaxAdds
    /\ out \in Shape(req)
    /\ UNCHANGED <<made, Ns, A, boundary_conditions, pc, loc>>
    /\ IF out.err # "none"
       THEN \* the Shape constructor raised: add is not reached
            /\ err' = out.err
            /\ hist' = [hist EXCEPT !.last = "shape", !.pre = Arrays,
                                    !.arg = req.Ns,
                                    !.region = [args |-> req.args,
                                                kwargs |-> req.kwargs],
                                    !.printed = out.printed]
            /\ UNCHANGED <<potentials, sources, source_potentials>>
       ELSE LET res == System_add(Ns, Arrays, out.shape)
            IN  /\ err' = res.err
                /\ potentials' = res.arrays.potentials
                /\ sources' = res.arrays.sources
                /\ source_potentials' = res.arrays.source_potentials
                /\ hist' = IF res.err # "none"
                           THEN [hist EXCEPT !.last = "add", !.pre = Arrays,
                                             !.arg = req.Ns,
                                             !.region = [args |-> req.args,
                                                         kwargs |-> req.kwargs],
                                             !.printed = out.printed]
                           ELSE [hist EXCEPT !.last = "add", !.pre = Arrays,
                                             !.arg = req.Ns,
                                             !.region = [args |-> req.args,
                                                         kwargs |-> req.kwargs],
                                             !.printed = out.printed,
                                             !.nadd = @ + 1,
                                             !.shapes = Append(@, out.shape),
                                             !.late = @ \/ hist.stored,
                                             !.prev = NoSolve]

(* jacobi, gauss_seidel, SOR: from the call to the entry of the loop *)

RECURSIVE TableFrom(_, _, _)
\* the function on lo..hi with the values of f, each computed once
TableFrom(f, lo, hi) ==
    IF lo > hi THEN << >>
    ELSE IF lo = hi THEN (lo :> f[lo])
    ELSE LET mid == (lo + hi) \div 2
         IN  TableFrom(f, lo, mid) @@ TableFrom(f, mid + 1, hi)

\* largest grid side of any run
MaxSide ==
    LET m == IF MaxNs > CentreNs THEN MaxNs ELSE CentreNs
    IN  IF m > MaxStencilNs THEN m ELSE MaxStencilNs

\* create_method_matrix(ns) for every grid side of the model, computed once
MatrixOf ==
    TableFrom([ns \in (-1)..MaxSide |-> create_method_matrix(ns)], -1, MaxSide)

\* the inverses jacobi and gauss_seidel take of the parts of self.A
Inverses(ns) ==
    [D_inv |-> D_inv(MatrixOf[ns].A, ns * ns),
     L_D_inv |-> L_D_inv(MatrixOf[ns].A, ns * ns)]

\* the inverses for the grid sides the System is constructed with, and for
\* the grid with a centre cell, each computed once
InversesOf == TableFrom([ns \in (-1)..MaxNs |-> Inverses(ns)], -1, MaxNs)
InversesCentre == Inverses(CentreNs)

\* a right-hand side that holds a potential for the cells at the edge
rhs_b_Ones(N) == Array([k \in Idx(N) |-> One], N)

\* b = np.zeros(N): nothing of boundary_conditions is put into it
rhs_b(N) == zeros(N)

\* what a solve computes from self.Ns alone before its loop: the matrix of
\* create_method_matrix, b, and the iteration matrix T and vector c of jacobi
\* and of gauss_seidel, iv being the inverses
Setup(ns, iv) ==
    LET N == ns * ns
        mm == MatrixOf[ns]
        b == rhs_b(N)
    IN  [A |-> mm.A, boundary_conditions |-> mm.boundary_conditions, b |-> b,
         jacobi |-> [T |-> jacobi_T(iv.D_inv, mm.A, N),
                     c |-> jacobi_c(iv.D_inv, b, N)],
         gauss_seidel |-> [T |-> gauss_seidel_T(iv.L_D_inv, mm.A, N),
                           c |-> gauss_seidel_c(iv.L_D_inv, b, N)],
         SOR |-> [T |-> << >>, c |-> << >>]]

\* Setup for the same grid sides, each computed once
SetupOf ==
    TableFrom([ns \in (-1)..MaxNs |-> Setup(ns, InversesOf[ns])], -1, MaxNs)
SetupCentre == Setup(CentreNs, InversesCentre)
SetupFor(ns) == IF ns \in DOMAIN SetupOf THEN SetupOf[ns] ELSE SetupCentre

\* the outcomes of the Shape calls of the model, computed once
ShapeCalls == UNION {{<<req, out>> : out \in Shape(req)} : req \in ShapeRequests}

\* a solve that starts from the field it finds
StartVectorStored(r, orig_x, src, N) == orig_x

\* x = np.random.random(x.shape); x[sources] = orig_x[sources], r being the
\* random vector
StartVector(r, orig_x, src, N) == Pin(r, orig_x, src, N)

\* a negative tol, or a max_iter that is no positive int: arguments that
\* no solver tests for
BadArgs(tol, max_iter) ==
    FLess(tol, Zero) \/ ~max_iter.isint \/ ~FLess(Zero, max_iter.v)

\* the runs of the model: a solve after the first one is the previous solve
\* called again, with the same arguments
Repeats(method, w, tol, max_iter) ==
    /\ hist.prev.valid
    /\ hist.prev.method = method
    /\ hist.prev.w = w
    /\ hist.prev.tol = tol
    /\ hist.prev.max_iter = max_iter

\* the part the three methods share; r is the vector np.random.random yields,
\* exc the exception a max_iter that is no int raises at the loop header
SolveCall(method, w, tol, max_iter, r, exc) ==
    /\ made
    /\ pc = "idle"
    /\ hist.nsolve < MaxSolves
    /\ hist.nsolve > 0 => Repeats(method, w, tol, max_iter)
    /\ LET N == Ns * Ns
           su == SetupFor(Ns)
           orig_x == potentials
           x == StartVector(r, orig_x, sources, N)
           args == [NoLoc EXCEPT !.method = method, !.tol = tol,
                                 !.max_iter = max_iter, !.w = w]
           h == [hist EXCEPT !.last = "solve", !.pre = Arrays,
                             !.arg = PyInt(0),
                             !.badargs = @ \/ BadArgs(tol, max_iter)]
       IN  /\ A' = su.A
           /\ boundary_conditions' = su.boundary_conditions
           /\ IF ~max_iter.isint
              THEN \* the exception ends the call: its locals are gone
                   /\ pc' = "idle"
                   /\ err' = exc
                   /\ loc' = args
                   /\ hist' = h
              ELSE /\ pc' = IF IntOf(max_iter.v) > 0 THEN "loop" ELSE "store"
                   /\ err' = "none"
                   /\ loc' = [args EXCEPT !.b = su.b,
                                          !.T = su[method].T, !.c = su[method].c,
                                          !.x = x, !.orig_x = orig_x,
                                          !.xs = <<x>>]
                   /\ hist' = [h EXCEPT !.nsolve = @ + 1]
    /\ UNCHANGED <<made, Ns, potentials, sources, source_potentials>>

\* range(max_iter) raises TypeError
jacobi(tol, max_iter, r) ==
    SolveCall("jacobi", Zero, tol, max_iter, r, "TypeError")

gauss_seidel(tol, max_iter, r) ==
    SolveCall("gauss_seidel", Zero, tol, max_iter, r, "TypeError")

\* SOR_sub_func is compiled in nopython mode, which has no range over a float
SOR(w, tol, max_iter, r) ==
    SolveCall("SOR", w, tol, max_iter, r, "TypingError")

(* One pass of the loop over i: the sweep, the norms and the test *)

\* the vector one sweep of the method makes of x
OneSweep(method, w, x, orig_x, src, ns) ==
    IF method = "SOR"
    THEN SORSweep(SetupFor(ns).A, x, src, w, SetupFor(ns).b, ns * ns)
    ELSE MatrixSweep(SetupFor(ns)[method].T, SetupFor(ns)[method].c,
                     x, orig_x, src, ns * ns)

\* a loop without the break on diff < tol
AfterSweepNoBreak(diff, tol, i, max_iter) ==
    IF i + 1 < max_iter THEN "loop" ELSE "store"

\* where the loop goes after sweep number i (counted from 0): the break on
\* diff < tol, else the next i of range(max_iter), else the end of the loop
AfterSweep(diff, tol, i, max_iter) ==
    IF FLess(diff, tol) THEN "store"
    ELSE IF i + 1 < max_iter THEN "loop"
    ELSE "store"

\* the body of the loop, from the locals l of the solve: the locals after
\* the pass, and where the loop goes
LoopBody(l, M, src, N) ==
    LET initial_norm == norm(l.x, N)
        x == IF l.method = "SOR"
             THEN SORSweep(M, l.x, src, l.w, l.b, N)
             ELSE MatrixSweep(l.T, l.c, l.x, l.orig_x, src, N)
        final_norm == norm(x, N)
        diff == FAbs(FSub(initial_norm, final_norm))
    IN  [loc |-> [l EXCEPT !.x = x, !.i = @ + 1,
                           !.initial_norm = initial_norm,
                           !.final_norm = final_norm, !.diff = diff,
                           !.xs = Append(@, x)],
         pc |-> AfterSweep(diff, l.tol, l.i, IntOf(l.max_iter.v))]

Sweep ==
    /\ pc = "loop"
    /\ loc' = LoopBody(loc, A, sources, Ns * Ns).loc
    /\ pc' = LoopBody(loc, A, sources, Ns * Ns).pc
    /\ UNCHANGED <<made, Ns, potentials, sources, source_potentials, A,
                   boundary_conditions, err, hist>>

(* self.potentials = x.reshape(self.Ns, -1) *)

Store ==
    /\ pc = "store"
    /\ pc' = "idle"
    /\ IF Ns < 0
       THEN \* reshape(-n, -1): only one dimension may be left unknown
            /\ err' = "ValueError"
            /\ UNCHANGED <<potentials, hist>>
       ELSE /\ potentials' = loc.x
            /\ err' = "none"
            /\ hist' = [hist EXCEPT !.stored = TRUE,
                           !.prev = [valid |-> TRUE, method |-> loc.method,
                                     tol |-> loc.tol, max_iter |-> loc.max_iter,
                                     w |-> loc.w]]
    /\ UNCHANGED <<made, Ns, sources, source_potentials, A,
                   boundary_conditions, loc>>

(* test.create_method_matrix(), called on its own *)

CallCreateMethodMatrix ==
    /\ made
    /\ pc = "idle"
    /\ A' = MatrixOf[Ns].A
    /\ boundary_conditions' = MatrixOf[Ns].boundary_conditions
    /\ err' = "none"
    /\ hist' = [hist EXCEPT !.last = "matrix", !.pre = Arrays,
                            !.arg = PyInt(0)]
    /\ UNCHANGED <<made, Ns, potentials, sources, source_potentials, pc, loc>>

----------------------------------------------------------------------------
(* Specifications *)

\* the random vectors of the runs of Spec, by grid side, computed once
SeededVectors ==
    TableFrom([n \in 0..MaxNs |->
                  {random(seed, n * n) : seed \in 0..(MaxSeed - 1)}], 0, MaxNs)

Next ==
    \/ \E nsv \in NsInputs : New(nsv)
    \/ \E call \in ShapeCalls : add(call[1], call[2])
    \/ \E tol \in TolInputs, max_iter \in MaxIterInputs :
          \E r \in SeededVectors[Side(Ns)] : jacobi(tol, max_iter, r)
    \/ \E tol \in TolInputs, max_iter \in MaxIterInputs :
          \E r \in SeededVectors[Side(Ns)] : gauss_seidel(tol, max_iter, r)
    \/ \E w \in WInputs, tol \in TolInputs, max_iter \in MaxIterInputs :
          \E r \in SeededVectors[Side(Ns)] : SOR(w, tol, max_iter, r)
    \/ Sweep
    \/ Store

\* every call the program makes, in any order
Spec == Init /\ [][Next]_vars

\* weak fairness of Sweep, written out: Sweep is enabled exactly where pc is
\* "loop", and every Sweep step changes loc.i
SweepIsFair == []<>(pc # "loop") \/ []<><<Sweep>>_vars

\* the interpreter runs a loop it has entered: a sweep that can be made is
\* made, and a field that can be stored is stored
FairSpec == Spec /\ SweepIsFair /\ WF_vars(Store)

(* One solve of a grid with a centre cell, from every start vector whose *)
(* entries are a quarter or a half                                        *)

CentreRequest ==
    [Ns |-> PyInt(CentreNs), potential |-> Dy(3, 1),
     origin |-> <<Dy(1, 1), Dy(1, 1)>>, args |-> << >>, kwargs |-> {}]

\* the start vectors of the runs of SpecCentre, computed once
CentreVectors ==
    {r \in [Idx(CentreNs * CentreNs) -> {Dy(1, 2), Dy(1, 1)}] : TRUE}

CentreTol == Dy(1, 3)

NextCentre ==
    \/ New(PyInt(CentreNs))
    \/ \E out \in Shape(CentreRequest) : hist.nadd = 0 /\ add(CentreRequest, out)
    \/ /\ pc = "idle" /\ hist.nsolve = 0
       /\ \E r \in CentreVectors : jacobi(CentreTol, PyInt(1), r)
    \/ /\ pc = "idle" /\ hist.nsolve = 0
       /\ \E r \in CentreVectors : gauss_seidel(CentreTol, PyInt(1), r)
    \/ /\ pc = "idle" /\ hist.nsolve = 0
       /\ \E w \in WInputs, r \in CentreVectors : SOR(w, CentreTol, PyInt(1), r)
    \/ Sweep
    \/ Store

SpecCentre == Init /\ [][NextCentre]_vars

(* The matrix of create_method_matrix on grids up to MaxStencilNs a side *)

StencilRequests ==
    [Ns : {PyInt(n) : n \in 1..MaxStencilNs}, potential : PotentialInputs,
     origin : OriginInputs, args : {<< >>}, kwargs : {{}}]

NextStencil ==
    \/ \E n \in 1..MaxStencilNs : New(PyInt(n))
    \/ \E req \in StencilRequests : \E out \in Shape(req) : add(req, out)
    \/ CallCreateMethodMatrix

SpecStencil == Init /\ [][NextStencil]_vars

(* Regions made with shape arguments and a shape name *)

\* the call reaches the loops that draw a rectangle or a circle
Drawn(args, kwargs) ==
    /\ args # << >>
    /\ \/ ShapeName(kwargs) = "rectangle" /\ Len(args) = 2
       \/ ShapeName(kwargs) = "circle" /\ Len(args) = 1

\* the Shape calls of the runs of SpecShapes: every list of shape arguments
\* with every shape name, but for the calls that draw
RegionRequests ==
    {req \in [Ns : {PyInt(n) : n \in 1..MaxNs}, potential : PotentialInputs,
              origin : OriginInputs, args : ArgsInputs, kwargs : KwargsInputs] :
        ~Drawn(req.args, req.kwargs)}

RegionCalls == UNION {{<<req, out>> : out \in Shape(req)} : req \in RegionRequests}

NextShapes ==
    \/ \E n \in 1..MaxNs : New(PyInt(n))
    \/ \E call \in RegionCalls : add(call[1], call[2])

SpecShapes == Init /\ [][NextShapes]_vars

----------------------------------------------------------------------------
(* Properties *)

\* the flattened cells of the System's grid
Cells == Idx(Ns * Ns)

\* every source cell of the vector x holds its SourcePotentials value
Pinned(x) == \A k \in Cells : sources[k] => x[k] = source_potentials[k]

\* |a - b| < tol
Within(a, b, tol) == FLess(FAbs(FSub(a, b)), tol)

\* the last call was a solve and it has returned without an exception
Returned == hist.last = "solve" /\ pc = "idle" /\ err = "none"

\* C1: while no region has been added after a solve, every vector a solve
\* holds at the start of its first sweep and after each completed sweep, and
\* the field the System holds before, during and after the solve, has every
\* source cell at exactly its SourcePotentials value, whatever the random
\* start vector, tol, max_iter and w.
C1_SourcesStayPinned ==
    (made /\ ~hist.late) =>
        /\ Pinned(potentials)
        /\ hist.last = "solve" =>
              \A n \in 1..Len(loc.xs) : Pinned(loc.xs[n])

\* a first solve of two sweeps has returned on a grid with a source cell and
\* a free cell, and the stored field is the vector after the second sweep
C1_Witness ==
    /\ Returned /\ ~hist.late /\ hist.nsolve = 1
    /\ Len(loc.xs) = 3
    /\ potentials = loc.xs[3]
    /\ \E k \in Cells : sources[k]
    /\ \E k \in Cells : ~sources[k]

\* C2: as the claim states it.  With the single source at the centre cell,
\* a field that one sweep (with its re-pinning) of the running method leaves
\* unchanged is moved by less than the tolerance, in every cell, by one sweep
\* of each of the three methods.
C2_SameFixedPoint ==
    (/\ pc = "store" /\ hist.nadd = 1 /\ Len(loc.xs) = 2
     /\ loc.xs[2] = loc.xs[1]) =>
        \A m \in Methods, w \in WInputs : \A k \in Cells :
            Within(OneSweep(m, w, loc.xs[1], loc.xs[1], sources, Ns)[k],
                   loc.xs[1][k], CentreTol)

\* |initial_norm - final_norm| of sweep number n (counted from 1), from the
\* vectors before and after it
DiffOfSweep(n) ==
    FAbs(FSub(norm(loc.xs[n], Ns * Ns), norm(loc.xs[n + 1], Ns * Ns)))

\* the stopping rule of a solve called with an int max_iter >= 1, n being the
\* number of sweeps completed: no sweep before the last met the test; the
\* loop goes on only below max_iter and after a sweep that did not meet the
\* test; it is left only after a sweep, the one that met the test or the one
\* numbered max_iter
StopRule ==
    (/\ hist.last = "solve" /\ loc.max_iter.isint
     /\ IntOf(loc.max_iter.v) >= 1) =>
        LET n == Len(loc.xs) - 1
            max_iter == IntOf(loc.max_iter.v)
        IN  /\ n = loc.i
            /\ n <= max_iter
            /\ \A m \in 1..(n - 1) : ~FLess(DiffOfSweep(m), loc.tol)
            /\ pc = "loop" =>
                  /\ n < max_iter
                  /\ n >= 1 => ~FLess(DiffOfSweep(n), loc.tol)
            /\ pc # "loop" =>
                  /\ n >= 1
                  /\ FLess(DiffOfSweep(n), loc.tol) \/ n = max_iter

\* C3: a solve stops after the first sweep with |initial_norm - final_norm|
\* < tol or after max_iter sweeps, whichever comes first; with max_iter >= 1
\* it performs between 1 and max_iter sweeps; and every solve that has been
\* called returns.
C3_StopsAtFirstMetTest == []StopRule /\ ((pc # "idle") ~> (pc = "idle"))

\* a solve allowed more sweeps has left its loop after its first sweep, which
\* met the test
C3_Witness ==
    /\ pc = "store" /\ loc.max_iter.isint
    /\ loc.i = 1 /\ IntOf(loc.max_iter.v) > 1
    /\ FLess(loc.diff, loc.tol)

\* C4: after two regions have been added to a fresh System, a cell of both
\* is a source cell whose PotentialField and SourcePotentials are p1 + p2, a
\* cell of exactly one is a source cell holding that region's potential, and
\* every other cell is no source and holds 0.
C4_AdditiveOverlap ==
    (made /\ hist.nsolve = 0 /\ Len(hist.shapes) = 2) =>
        LET s1 == hist.shapes[1]
            s2 == hist.shapes[2]
            Holds(k, src, p) == /\ sources[k] = src
                                /\ potentials[k] = p
                                /\ source_potentials[k] = p
        IN  \A k \in Cells :
                IF s1.sources[k] /\ s2.sources[k]
                THEN Holds(k, TRUE, FAdd(s1.potential, s2.potential))
                ELSE IF s1.sources[k] THEN Holds(k, TRUE, s1.potential)
                ELSE IF s2.sources[k] THEN Holds(k, TRUE, s2.potential)
                ELSE Holds(k, FALSE, Zero)

\* two regions of different potentials have been added on the same cell of a
\* grid that has other cells
C4_Witness ==
    /\ made /\ hist.nsolve = 0 /\ Len(hist.shapes) = 2
    /\ hist.shapes[1].potential # hist.shapes[2].potential
    /\ \E k \in Cells : hist.shapes[1].sources[k] /\ hist.shapes[2].sources[k]
    /\ \E k \in Cells : ~sources[k]

\* cells i and j of a grid of side ns are neighbours up, down, left or right
Adjacent(i, j, ns) ==
    AbsInt((i \div ns) - (j \div ns)) + AbsInt((i % ns) - (j % ns)) = 1

\* C5: for Ns >= 1 the matrix of create_method_matrix has -4 on the
\* diagonal, +1 exactly where the column is an in-bounds up, down, left or
\* right neighbour of the row's cell, and 0 elsewhere.
C5_Stencil ==
    (made /\ Ns >= 1 /\ A # << >>) =>
        \A i \in Cells, j \in Cells :
            A[i][j] = IF i = j THEN F(-4)
                      ELSE IF Adjacent(i, j, Ns) THEN One
                      ELSE Zero

\* the matrix has been built for a grid with an interior cell, whose row has
\* four entries +1, and no +1 links the end of the first grid row to the
\* start of the second
C5_Witness ==
    /\ made /\ Ns >= 3 /\ A # << >>
    /\ \E i \in Cells : Cardinality({j \in Cells : A[i][j] = One}) = 4
    /\ A[Ns - 1][Ns] = Zero

ReturnedAgain == Returned /\ hist.nsolve = 2 /\ ~hist.badargs

\* C7 as the claim states it: the repeated solve started from the field the
\* first solve stored and has changed every cell by less than tol.
C7_RoundTrip ==
    ReturnedAgain =>
        /\ loc.xs[1] = hist.pre.potentials
        /\ \A k \in Cells :
              Within(potentials[k], hist.pre.potentials[k], loc.tol)

\* C7, amended: the repeated solve starts from a fresh random vector in which
\* only the source cells are taken from the stored field, and it leaves every
\* source cell of the stored field as it was.
C7_RestartsFromRandom ==
    (hist.last = "solve" /\ hist.nsolve = 2 /\ loc.xs # << >>) =>
        /\ \E r \in SeededVectors[Side(Ns)] :
              loc.xs[1] = Pin(r, hist.pre.potentials, sources, Ns * Ns)
        /\ Returned =>
              \A k \in Cells : sources[k] => potentials[k] = hist.pre.potentials[k]

\* a repeated solve has returned that did not start from the stored field
\* and has moved a free cell by tol or more, next to a source cell it kept
C7_Witness ==
    /\ ReturnedAgain
    /\ loc.xs[1] # hist.pre.potentials
    /\ \E k \in Cells :
          ~sources[k] /\ ~Within(potentials[k], hist.pre.potentials[k], loc.tol)
    /\ \E k \in Cells : sources[k]

\* C8: as the claim states it.  A solve called with a negative tol or with a
\* max_iter that is zero, negative or no integer ends with an exception and
\* leaves the PotentialField as it was before the call.
C8_InvalidArgumentsRejected ==
    (hist.last = "solve" /\ pc = "idle" /\ BadArgs(loc.tol, loc.max_iter)) =>
        /\ err # "none"
        /\ potentials = hist.pre.potentials

\* C9: as the claim states it.  System(Ns) with an Ns that is no positive
\* integer raises and constructs nothing; with a positive integer it yields
\* Ns x Ns arrays that are all zero or false.
C9_ConstructorChecksNs ==
    hist.last = "new" =>
        IF hist.arg.isint /\ FLess(Zero, hist.arg.v)
        THEN /\ made /\ Ns = IntOf(hist.arg.v) /\ err = "none"
             /\ DOMAIN potentials = Idx(Ns * Ns)
             /\ \A k \in Cells : /\ potentials[k] = Zero
                                 /\ ~sources[k]
                                 /\ source_potentials[k] = Zero
        ELSE ~made /\ err # "none"

\* C10: add with a region whose Ns is not the System's Ns raises, and the
\* PotentialField, SourceMask and SourcePotentials are what they were before
\* the call.
C10_MismatchLeavesSystem ==
    (hist.last = "add" /\ IntOf(hist.arg.v) # Ns) =>
        /\ err = "AssertionError"
        /\ Arrays = hist.pre

\* a region of one cell has been refused by a System of another Ns that
\* already has a source
C10_Witness ==
    /\ hist.last = "add" /\ IntOf(hist.arg.v) # Ns
    /\ Side(IntOf(hist.arg.v)) = 1
    /\ err = "AssertionError"
    /\ \E k \in Cells : sources[k]

\* the region of the last add was asked for with shape arguments that
\* add_source draws nothing for, and it has the System's grid side
UndrawnRegionAdded ==
    /\ hist.last = "add"
    /\ hist.arg = PyInt(Ns)
    /\ hist.region.args # << >>
    /\ ~Drawn(hist.region.args, hist.region.kwargs)

\* C11: as the claim states it.  A region asked for with a shape name or a
\* number of shape arguments that has no rasterization is made and added
\* without an exception, a diagnostic is printed, the region marks no source
\* cell, and the add leaves PotentialField, SourceMask and SourcePotentials
\* as they were.
C11_UndrawnShapeDiagnosed ==
    UndrawnRegionAdded =>
        /\ err = "none"
        /\ hist.printed # << >>
        /\ \A k \in Cells : ~hist.shapes[Len(hist.shapes)].sources[k]
        /\ Arrays = hist.pre

\* (r, c) is a cell of the System's grid
InGrid(r, c) == r \in Idx(Side(Ns)) /\ c \in Idx(Side(Ns))

\* the value at (r, c) of the field x continued by 0 outside the grid
Grounded(x, r, c) == IF InGrid(r, c) THEN x[r * Side(Ns) + c] ELSE Zero

\* a quarter of each of the four neighbours of cell k in the continued field,
\* summed in the order of their indices
GroundedMean(x, k) ==
    LET r == k \div Side(Ns)
        c == k % Side(Ns)
        q(v) == FMul(Dy(1, 2), v)
    IN  FAdd(FAdd(FAdd(q(Grounded(x, r - 1, c)), q(Grounded(x, r, c - 1))),
                  q(Grounded(x, r, c + 1))),
             q(Grounded(x, r + 1, c)))

\* C12: the vector b of a solve is all zero, whatever the grid side and the
\* sources; create_method_matrix records every neighbour off the grid in
\* boundary_conditions, so that for every cell the recorded neighbours and
\* the off-diagonal entries of its row number 4; and a neighbour off the grid
\* adds exactly 0 to its cell's update, that is, the cells beyond the edge
\* act as cells held at 0: every jacobi sweep sets each cell that is no
\* source to the mean of its four neighbours in the field continued by 0.
C12_BoundaryGrounded ==
    /\ loc.b # << >> => \A k \in Cells : loc.b[k] = Zero
    /\ A # << >> =>
          \A i \in Cells :
             /\ Len(boundary_conditions[i])
                  + Cardinality({j \in Cells : j # i /\ A[i][j] = One}) = 4
             /\ \A n \in 1..Len(boundary_conditions[i]) :
                   ~InGrid(boundary_conditions[i][n][1],
                           boundary_conditions[i][n][2])
    /\ (hist.last = "solve" /\ loc.method = "jacobi") =>
          \A n \in 1..(Len(loc.xs) - 1) : \A k \in Cells :
             ~sources[k] => loc.xs[n + 1][k] = GroundedMean(loc.xs[n], k)

\* a jacobi sweep has been made on a grid of four corner cells, one a source,
\* and has left a value other than 0 in a cell that has two neighbours off
\* the grid, with b all zero
C12_Witness ==
    /\ hist.last = "solve" /\ loc.method = "jacobi"
    /\ Ns = 2 /\ Len(loc.xs) >= 2
    /\ \A k \in Cells : loc.b[k] = Zero
    /\ \E j \in Cells : sources[j]
    /\ \E k \in Cells : /\ ~sources[k]
                        /\ loc.xs[2][k] # Zero
                        /\ Len(boundary_conditions[k]) = 2

\* the value the rule of SOR gives cell k after a sweep that turns the vector
\* old into the vector new: the neighbours above and to the left, which come
\* before k, are taken from new, those to the right and below from old
SORRule(old, new, w, k) ==
    LET r == k \div Side(Ns)
        c == k % Side(Ns)
        before == FAdd(Grounded(new, r - 1, c), Grounded(new, r, c - 1))
        after == FAdd(Grounded(old, r, c + 1), Grounded(old, r + 1, c))
    IN  FAdd(FMul(FSub(One, w), old[k]),
             FMul(FDiv(w, F(4)), FAdd(before, after)))

\* C13: after every sweep of SOR a source cell holds the value it held before
\* the sweep, and every other cell k holds (1-w)*x[k] + (w/4)*(sum of its
\* neighbours on the grid), the neighbours of lower index with the value this
\* sweep gave them and those of higher index with their value before it.
C13_SORSweepRule ==
    (hist.last = "solve" /\ loc.method = "SOR") =>
        \A n \in 1..(Len(loc.xs) - 1) : \A k \in Cells :
            loc.xs[n + 1][k] =
                IF sources[k] THEN loc.xs[n][k]
                ELSE SORRule(loc.xs[n], loc.xs[n + 1], loc.w, k)

\* a sweep of SOR with w = 1.5 has been made on a grid with a source cell,
\* and a cell that is no source has a neighbour of lower index which the
\* sweep gave a new value
C13_Witness ==
    /\ hist.last = "solve" /\ loc.method = "SOR" /\ loc.w = Dy(3, 1)
    /\ Ns = 2 /\ Len(loc.xs) >= 2
    /\ \E j \in Cells : sources[j]
    /\ \E k \in Cells : \E j \in Cells :
          /\ ~sources[k] /\ ~sources[j]
          /\ j < k /\ A[k][j] = One
          /\ loc.xs[2][j] # loc.xs[1][j]

RECURSIVE ClassicalSweep(_, _)
\* the classical pointwise sweep of Gauss-Seidel over the cells k..N-1, in
\* place: each cell, source or not, becomes a quarter of the sum of its
\* neighbours on the grid, those of lower index already updated
ClassicalSweep(x, k) ==
    IF k >= Ns * Ns THEN x
    ELSE LET r == k \div Side(Ns)
             c == k % Side(Ns)
             sum == FAdd(FAdd(FAdd(Grounded(x, r - 1, c), Grounded(x, r, c - 1)),
                              Grounded(x, r, c + 1)),
                         Grounded(x, r + 1, c))
         IN  ClassicalSweep([x EXCEPT ![k] = FMul(Dy(1, 2), sum)], k + 1)

\* C14: every sweep of gauss_seidel, the matrix update followed by the
\* re-pinning, yields the vector the classical pointwise sweep over all the
\* cells yields when the same re-pinning follows it.
C14_MatrixIsPointwise ==
    (hist.last = "solve" /\ loc.method = "gauss_seidel") =>
        \A n \in 1..(Len(loc.xs) - 1) : \A k \in Cells :
            loc.xs[n + 1][k] =
                IF sources[k] THEN loc.orig_x[k]
                ELSE ClassicalSweep(loc.xs[n], 0)[k]

\* a sweep of gauss_seidel has been made on a grid where a source cell comes
\* before a neighbour that is no source, and the classical sweep gives that
\* source cell a value other than the pinned one before it goes on
C14_Witness ==
    /\ hist.last = "solve" /\ loc.method = "gauss_seidel"
    /\ Ns = 2 /\ Len(loc.xs) >= 2
    /\ \E j \in Cells : \E k \in Cells :
          /\ sources[j] /\ ~sources[k]
          /\ j < k /\ A[k][j] = One
          /\ ClassicalSweep(loc.xs[1], 0)[j] # loc.orig_x[j]
          /\ loc.xs[2][k] # loc.xs[1][k]

====
